---- MODULE Spec2Model ----
(***************************************************************************)
(* Model of souffle's ast2ram ClauseTranslator: the lowering of one        *)
(* Datalog clause (fact or rule, non-recursive or semi-naive) to a RAM     *)
(* operation tree.  Every RAM operation nests exactly one operation, so    *)
(* the tree is a chain; it is kept as a sequence of layers, innermost      *)
(* (the Project) first, outermost last.                                    *)
(***************************************************************************)
EXTENDS Integers, Sequences, FiniteSets, TLC

(* ---------------------------------------------------------------------- *)
(* Bounds of the explored inputs                                          *)
(* ---------------------------------------------------------------------- *)
MaxAtoms == 2
MaxAux == 1

(* ---------------------------------------------------------------------- *)
(* AST: arguments, atoms, literals, clauses                               *)
(* ---------------------------------------------------------------------- *)
VarNames == {"x", "y", "z"}

\* ft is the final type of a numeric constant ("Int", "Uint", "Float")
Var(n) == [t |-> "var", name |-> n, ft |-> "", args |-> <<>>, tgt |-> <<>>, lits |-> <<>>]
Unnamed == [t |-> "unnamed", name |-> "_", ft |-> "", args |-> <<>>, tgt |-> <<>>, lits |-> <<>>]
Num(s, ty) == [t |-> "num", name |-> s, ft |-> ty, args |-> <<>>, tgt |-> <<>>, lits |-> <<>>]
Str(s) == [t |-> "str", name |-> s, ft |-> "", args |-> <<>>, tgt |-> <<>>, lits |-> <<>>]
Nil == [t |-> "nil", name |-> "nil", ft |-> "", args |-> <<>>, tgt |-> <<>>, lits |-> <<>>]
Rec(as) == [t |-> "rec", name |-> "", ft |-> "", args |-> as, tgt |-> <<>>, lits |-> <<>>]
Functor(f, as) == [t |-> "functor", name |-> f, ft |-> "", args |-> as, tgt |-> <<>>, lits |-> <<>>]
\* an aggregator with its single body atom rel(as) and optional target;
\* lits are the other literals of its body (binary constraints)
Agg(rel, as, target) == [t |-> "agg", name |-> rel, ft |-> "", args |-> as, tgt |-> target, lits |-> <<>>]
AggBody(rel, as, target, ls) == [Agg(rel, as, target) EXCEPT !.lits = ls]

IsConstant(a) == a.t \in {"num", "str", "nil"}

Atom(rel, as) == [k |-> "atom", name |-> rel, args |-> as, lhs |-> <<>>, rhs |-> <<>>]
Neg(rel, as) == [k |-> "neg", name |-> rel, args |-> as, lhs |-> <<>>, rhs |-> <<>>]
BinC(o, l, r) == [k |-> "bc", name |-> o, args |-> <<>>, lhs |-> <<l>>, rhs |-> <<r>>]

NoPlan == [present |-> FALSE, orders |-> <<>>]
Plan(f) == [present |-> TRUE, orders |-> f]

Min(a, b) == IF a < b THEN a ELSE b
SeqToSet(s) == {s[i] : i \in 1..Len(s)}

RECURSIVE SelectPos(_, _, _)
SelectPos(s, P(_), i) ==
    IF i > Len(s) THEN <<>>
    ELSE (IF P(s[i]) THEN <<i>> ELSE <<>>) \o SelectPos(s, P, i + 1)

IsAtomLit(l) == l.k = "atom"

\* the body positions of the positive atoms, in source order
getBodyLiterals(c) == SelectPos(c.body, IsAtomLit, 1)

isFact(c) == Len(c.body) = 0
isRule(c) == ~isFact(c)

FunctorAnalysis_isMultiResult(f) == f.name \in {"range", "urange", "frange"}

(* ---------------------------------------------------------------------- *)
(* Pointers to AST nodes: the head is <<0>>, the literal at body position *)
(* p is <<p>>, the argument at (1-based) position i of node n is          *)
(* Append(n, i), the sides of the binary constraint at p are <<p, 1>> and  *)
(* <<p, 2>>, the body atom of the aggregator g is Append(g, 0).           *)
(* ---------------------------------------------------------------------- *)
NullPtr == <<>>
HeadPtr == <<0>>
AtomPtr(p) == <<p>>
LhsPtr(p) == <<p, 1>>
RhsPtr(p) == <<p, 2>>
AggAtomPtr(g) == Append(g, 0)

(* ---------------------------------------------------------------------- *)
(* Relation names                                                         *)
(* ---------------------------------------------------------------------- *)
NoRel == [v |-> "", q |-> ""]
getConcreteRelationName(q) == [v |-> "concrete", q |-> q]
getDeltaRelationName(q) == [v |-> "delta", q |-> q]
getNewRelationName(q) == [v |-> "new", q |-> q]

isRecursive(delta) == delta # NullPtr

getClauseAtomName_allDelta(delta, atomPtr, q) ==
    IF ~isRecursive(delta) THEN getConcreteRelationName(q)
    ELSE IF atomPtr = HeadPtr THEN getNewRelationName(q)
    ELSE getDeltaRelationName(q)

getClauseAtomName(delta, atomPtr, q) ==
    IF ~isRecursive(delta) THEN getConcreteRelationName(q)
    ELSE IF atomPtr = HeadPtr THEN getNewRelationName(q)
    ELSE IF delta = atomPtr THEN getDeltaRelationName(q)
    ELSE getConcreteRelationName(q)

(* ---------------------------------------------------------------------- *)
(* Value index and level lists.  A Location is <<level, column>>, both    *)
(* zero-based.  ix bundles the translator fields the indexer writes:      *)
(* operators, generators, the value index, and ret, the value returned by *)
(* the last add*Level call; opRet/genRet keep the value returned for each *)
(* registered node.                                                       *)
(* ---------------------------------------------------------------------- *)
EmptyIndex ==
    [operators |-> <<>>, generators |-> <<>>, opRet |-> <<>>, genRet |-> <<>>,
     varRefs |-> [v \in VarNames |-> {}], recordDefs |-> {}, generatorLocs |-> {},
     ret |-> 0]

LocLess(a, b) == a[1] < b[1] \/ (a[1] = b[1] /\ a[2] < b[2])
FirstLoc(S) == CHOOSE a \in S : \A b \in S \ {a} : LocLess(a, b)

RECURSIVE SortedLocs(_)
SortedLocs(S) ==
    IF S = {} THEN <<>> ELSE <<FirstLoc(S)>> \o SortedLocs(S \ {FirstLoc(S)})

addVarReference(ix, name, level, col) ==
    [ix EXCEPT !.varRefs[name] = @ \cup {<<level, col>>}]

setRecordDefinition(ix, ptr, level, col) ==
    [ix EXCEPT !.recordDefs = @ \cup {<<ptr, <<level, col>>>>}]

setGeneratorLoc(ix, ptr, loc) ==
    [ix EXCEPT !.generatorLocs = @ \cup {<<ptr, loc>>}]

getGeneratorLoc(ix, ptr) == (CHOOSE g \in ix.generatorLocs : g[1] = ptr)[2]
getRecordDefinitionPoint(ix, ptr) == (CHOOSE r \in ix.recordDefs : r[1] = ptr)[2]
getDefinitionPoint(ix, name) == FirstLoc(ix.varRefs[name])
isGenerator(ix, level) == \E g \in ix.generatorLocs : g[2][1] = level

addOperatorLevel(ix, ptr) ==
    LET nodeLevel == Len(ix.operators) + Len(ix.generators)
    IN [ix EXCEPT !.operators = Append(@, ptr),
                  !.opRet = Append(@, nodeLevel),
                  !.ret = nodeLevel]

addGeneratorLevel_genOnly(ix, ptr) ==
    [ix EXCEPT !.generators = Append(@, ptr),
               !.genRet = Append(@, Len(ix.generators)),
               !.ret = Len(ix.generators)]

addGeneratorLevel(ix, ptr) ==
    LET generatorLevel == Len(ix.operators) + Len(ix.generators)
    IN [ix EXCEPT !.generators = Append(@, ptr),
                  !.genRet = Append(@, generatorLevel),
                  !.ret = generatorLevel]

RECURSIVE indexNodeArgumentsFrom(_, _, _, _, _)
indexNodeArgumentsFrom(ix, nodeLevel, ptr, nodeArgs, i) ==
    IF i > Len(nodeArgs) THEN ix
    ELSE LET arg == nodeArgs[i]
             a == IF arg.t = "var"
                  THEN addVarReference(ix, arg.name, nodeLevel, i - 1) ELSE ix
             b == IF arg.t = "rec"
                  THEN LET r == setRecordDefinition(a, Append(ptr, i), nodeLevel, i - 1)
                           u == addOperatorLevel(r, Append(ptr, i))
                       IN indexNodeArgumentsFrom(u, u.ret, Append(ptr, i), arg.args, 1)
                  ELSE a
         IN indexNodeArgumentsFrom(b, nodeLevel, ptr, nodeArgs, i + 1)

indexNodeArguments(ix, nodeLevel, ptr, nodeArgs) ==
    indexNodeArgumentsFrom(ix, nodeLevel, ptr, nodeArgs, 1)

indexGenerator(ix, ptr) ==
    LET g == addGeneratorLevel(ix, ptr) IN setGeneratorLoc(g, ptr, <<g.ret, 0>>)

RECURSIVE indexAtomsFrom(_, _, _, _)
indexAtomsFrom(ix, c, atoms, j) ==
    IF j > Len(atoms) THEN ix
    ELSE LET s == addOperatorLevel(ix, AtomPtr(atoms[j]))
         IN indexAtomsFrom(
                indexNodeArguments(s, s.ret, AtomPtr(atoms[j]), c.body[atoms[j]].args),
                c, atoms, j + 1)

\* the atoms are taken from the clause in source order
indexAtoms(ix, c) == indexAtomsFrom(ix, c, getBodyLiterals(c), 1)

IsEqAgg(l) == l.k = "bc" /\ l.rhs[1].t = "agg"
IsEqMulti(l) ==
    l.k = "bc" /\ l.rhs[1].t = "functor" /\ FunctorAnalysis_isMultiResult(l.rhs[1])
isEqConstraint(o) == o \in {"EQ", "FEQ"}

\* visitDepthFirst over the clause: the aggregators (multi-result functors)
\* of the body, in source order; they occur as right-hand sides of
\* binary constraints
AggregatorsOf(c) == SelectPos(c.body, IsEqAgg, 1)
MultiResultFunctorsOf(c) == SelectPos(c.body, IsEqMulti, 1)

RECURSIVE indexGenerators(_, _, _)
indexGenerators(ix, ps, j) ==
    IF j > Len(ps) THEN ix
    ELSE indexGenerators(indexGenerator(ix, RhsPtr(ps[j])), ps, j + 1)

RECURSIVE indexAggregatorBodyFrom(_, _, _, _)
indexAggregatorBodyFrom(ix, aggLoc, aggAtomArgs, i) ==
    IF i > Len(aggAtomArgs) THEN ix
    ELSE indexAggregatorBodyFrom(
             IF aggAtomArgs[i].t = "var"
             THEN addVarReference(ix, aggAtomArgs[i].name, aggLoc[1], i - 1)
             ELSE ix,
             aggLoc, aggAtomArgs, i + 1)

indexAggregatorBody(ix, c, p) ==
    indexAggregatorBodyFrom(ix, getGeneratorLoc(ix, RhsPtr(p)), c.body[p].rhs[1].args, 1)

RECURSIVE indexAggregatorBodies(_, _, _, _)
indexAggregatorBodies(ix, c, ps, j) ==
    IF j > Len(ps) THEN ix
    ELSE indexAggregatorBodies(indexAggregatorBody(ix, c, ps[j]), c, ps, j + 1)

\* value introductions: V = <generator> adds a reference of V at the
\* generator's location
RECURSIVE addValueIntroductions(_, _, _, _)
addValueIntroductions(ix, c, ps, j) ==
    IF j > Len(ps) THEN ix
    ELSE LET bc == c.body[ps[j]]
         IN addValueIntroductions(
                IF isEqConstraint(bc.name) /\ bc.lhs[1].t = "var"
                THEN LET loc == getGeneratorLoc(ix, RhsPtr(ps[j]))
                     IN addVarReference(ix, bc.lhs[1].name, loc[1], loc[2])
                ELSE ix,
                c, ps, j + 1)

indexAggregators(ix, c) ==
    LET ps == AggregatorsOf(c)
        a == indexGenerators(ix, ps, 1)
        b == indexAggregatorBodies(a, c, ps, 1)
    IN addValueIntroductions(b, c, ps, 1)

indexMultiResultFunctors(ix, c) ==
    LET ps == MultiResultFunctorsOf(c)
    IN addValueIntroductions(indexGenerators(ix, ps, 1), c, ps, 1)

indexClause(ix, c) == indexMultiResultFunctors(indexAggregators(indexAtoms(ix, c), c), c)

(* ---------------------------------------------------------------------- *)
(* Plan-driven atom ordering                                              *)
(* ---------------------------------------------------------------------- *)
reorderAtoms(atoms, newOrder) == [i \in 1..Len(atoms) |-> atoms[newOrder[i] + 1]]

getAtomOrdering(c, v) ==
    IF ~c.plan.present THEN <<>>
    ELSE IF v \notin DOMAIN c.plan.orders THEN <<>>
    ELSE LET order == c.plan.orders[v]
             newOrder == [i \in 1..Len(order) |-> order[i] - 1]
         IN reorderAtoms(getBodyLiterals(c), newOrder)

(* ---------------------------------------------------------------------- *)
(* RAM expressions and conditions                                         *)
(* ---------------------------------------------------------------------- *)
TupleElement(l, c) == [e |-> "TupleElement", a |-> l, b |-> c, sub |-> <<>>]
UndefValue == [e |-> "UndefValue", a |-> 0, b |-> 0, sub |-> <<>>]
SignedConstant(v) == [e |-> "SignedConstant", a |-> v, b |-> 0, sub |-> <<>>]
UnsignedConstant(v) == [e |-> "UnsignedConstant", a |-> v, b |-> 0, sub |-> <<>>]
FloatConstant(v) == [e |-> "FloatConstant", a |-> v, b |-> 0, sub |-> <<>>]
PackRecord(xs) == [e |-> "PackRecord", a |-> 0, b |-> 0, sub |-> xs]
IntrinsicOperator(xs) == [e |-> "IntrinsicOperator", a |-> 0, b |-> 0, sub |-> xs]

makeRamTupleElement(loc) == TupleElement(loc[1], loc[2])
isUndefValue(x) == x.e = "UndefValue"

EmptinessCheck(rel) ==
    [c |-> "EmptinessCheck", neg |-> FALSE, rel |-> rel, o |-> "", vals |-> <<>>]
ExistenceCheck(rel, vs) ==
    [c |-> "ExistenceCheck", neg |-> FALSE, rel |-> rel, o |-> "", vals |-> vs]
Constraint(o, l, r) ==
    [c |-> "Constraint", neg |-> FALSE, rel |-> NoRel, o |-> o, vals |-> <<l, r>>]
Negation(cd) == [cd EXCEPT !.neg = ~@]

(* ---------------------------------------------------------------------- *)
(* Constant coder.  T is the symbol table, a sequence of interned strings;*)
(* a string's id is its zero-based position.                              *)
(* ---------------------------------------------------------------------- *)
RECURSIVE IndexOf(_, _, _)
IndexOf(T, str, i) ==
    IF i > Len(T) THEN -1 ELSE IF T[i] = str THEN i - 1 ELSE IndexOf(T, str, i + 1)

Intern(T, str) == IF IndexOf(T, str, 1) >= 0 THEN T ELSE Append(T, str)

RECURSIVE InternAll(_, _)
InternAll(T, strs) ==
    IF strs = <<>> THEN T ELSE InternAll(Intern(T, Head(strs)), Tail(strs))

\* symbolTable.lookup on a table in which the string is interned
SymbolTable_lookup(T, str) == IndexOf(T, str, 1)

\* the numerals the explored clauses use, with their parsed values
RamSignedFromString(str) == CASE str = "1" -> 1 [] str = "5" -> 5 [] str = "7" -> 7
RamUnsignedFromString(str) == CASE str = "1" -> 1 [] str = "5" -> 5 [] str = "7" -> 7
\* IEEE-754 single precision bits of the numeral
RamFloatFromString(str) ==
    CASE str = "1" -> 1065353216 [] str = "5" -> 1084227584 [] str = "7" -> 1088421888

getConstantRamRepresentation(T, k) ==
    CASE k.t = "str" -> SymbolTable_lookup(T, k.name)
      [] k.t = "nil" -> 0
      [] k.t = "num" /\ k.ft = "Int" -> RamSignedFromString(k.name)
      [] k.t = "num" /\ k.ft = "Uint" -> RamUnsignedFromString(k.name)
      [] k.t = "num" /\ k.ft = "Float" -> RamFloatFromString(k.name)

translateConstant(T, k) ==
    LET rawConstant == getConstantRamRepresentation(T, k)
    IN IF k.t = "num"
       THEN CASE k.ft = "Int" -> SignedConstant(rawConstant)
              [] k.ft = "Uint" -> UnsignedConstant(rawConstant)
              [] k.ft = "Float" -> FloatConstant(rawConstant)
       ELSE SignedConstant(rawConstant)

\* the string constants that translating a list of arguments looks up, in
\* translation order (aggregators and multi-result functors translate to a
\* tuple element and are not descended into)
RECURSIVE StringsOf(_)
StringsOf(as) ==
    IF as = <<>> THEN <<>>
    ELSE (CASE Head(as).t = "str" -> <<Head(as).name>>
            [] Head(as).t = "rec" -> StringsOf(Head(as).args)
            [] Head(as).t = "functor" /\ ~FunctorAnalysis_isMultiResult(Head(as)) ->
                 StringsOf(Head(as).args)
            [] OTHER -> <<>>)
         \o StringsOf(Tail(as))

\* the string constants among the arguments themselves
RECURSIVE DirectStrings(_)
DirectStrings(as) ==
    IF as = <<>> THEN <<>>
    ELSE (IF Head(as).t = "str" THEN <<Head(as).name>> ELSE <<>>)
         \o DirectStrings(Tail(as))

(* ---------------------------------------------------------------------- *)
(* Value translator and constraint translator                             *)
(* ---------------------------------------------------------------------- *)
RECURSIVE translateValue(_, _, _, _)
translateValue(T, ix, arg, ptr) ==
    CASE arg.t = "var" -> makeRamTupleElement(getDefinitionPoint(ix, arg.name))
      [] arg.t = "unnamed" -> UndefValue
      [] IsConstant(arg) -> translateConstant(T, arg)
      [] arg.t = "rec" ->
           PackRecord([i \in 1..Len(arg.args) |->
                          translateValue(T, ix, arg.args[i], Append(ptr, i))])
      [] arg.t = "functor" ->
           IF FunctorAnalysis_isMultiResult(arg)
           THEN makeRamTupleElement(getGeneratorLoc(ix, ptr))
           ELSE IntrinsicOperator([i \in 1..Len(arg.args) |->
                                      translateValue(T, ix, arg.args[i], Append(ptr, i))])
      [] arg.t = "agg" -> makeRamTupleElement(getGeneratorLoc(ix, ptr))

translateValues(T, ix, as, ptr) ==
    [i \in 1..Len(as) |-> translateValue(T, ix, as[i], Append(ptr, i))]

Undefs(n) == [i \in 1..n |-> UndefValue]

\* context.getEvaluationArity: the number of auxiliary columns of the atom
getEvaluationArity(aux, atom) == Min(aux, Len(atom.args))

\* the condition of a body literal, as a sequence of zero or one conditions
translateConstraint(T, ix, aux, lit, p) ==
    CASE lit.k = "atom" -> <<>>
      [] lit.k = "bc" ->
           <<Constraint(lit.name, translateValue(T, ix, lit.lhs[1], LhsPtr(p)),
                                  translateValue(T, ix, lit.rhs[1], RhsPtr(p)))>>
      [] lit.k = "neg" ->
           LET auxiliaryArity == getEvaluationArity(aux, lit)
               arity == Len(lit.args) - auxiliaryArity
               name == getConcreteRelationName(lit.name)
           IN IF arity = 0 THEN <<EmptinessCheck(name)>>
              ELSE <<Negation(ExistenceCheck(name,
                       translateValues(T, ix, SubSeq(lit.args, 1, arity), AtomPtr(p))
                       \o Undefs(auxiliaryArity)))>>

(* ---------------------------------------------------------------------- *)
(* RAM operations: the layers of the chain                                *)
(* ---------------------------------------------------------------------- *)
Layer(k, rel, level, cond, vals, n, txt) ==
    [k |-> k, rel |-> rel, level |-> level, cond |-> cond, vals |-> vals,
     n |-> n, txt |-> txt]

Project(rel, vs) == Layer("Project", rel, -1, <<>>, vs, 0, <<>>)
Filter(cd) == Layer("Filter", NoRel, -1, <<cd>>, <<>>, 0, <<>>)
Break(cd) == Layer("Break", NoRel, -1, <<cd>>, <<>>, 0, <<>>)
Scan(rel, level, txt) == Layer("Scan", rel, level, <<>>, <<>>, 0, txt)
UnpackRecord(level, src, arity) == Layer("UnpackRecord", NoRel, level, <<>>, <<src>>, arity, <<>>)
\* cond is the list of conjuncts of the condition; the empty list is True
Aggregate(rel, expr, conds, level) == Layer("Aggregate", rel, level, conds, <<expr>>, 0, <<>>)
NestedIntrinsicOperator(f, as, level) ==
    Layer("NestedIntrinsicOperator", NoRel, level, <<>>, as, 0, <<f>>)

addEqualityCheck(op, lhs, rhs, isFloat) ==
    Append(op, Filter(Constraint(IF isFloat THEN "FEQ" ELSE "EQ", lhs, rhs)))

createProjection(T, ix, c, delta) ==
    LET headRelationName == getClauseAtomName(delta, HeadPtr, c.head.name)
        values == translateValues(T, ix, c.head.args, HeadPtr)
        project == <<Project(headRelationName, values)>>
    IN IF Len(c.head.args) = 0
       THEN Append(project, Filter(EmptinessCheck(headRelationName)))
       ELSE project

VarOrder == <<"x", "y", "z">>

RECURSIVE equateReferences_all(_, _, _, _, _)
equateReferences_all(op, ix, first, refs, j) ==
    IF j > Len(refs) THEN op
    ELSE equateReferences_all(
             IF first # refs[j]
             THEN addEqualityCheck(op, makeRamTupleElement(first),
                                   makeRamTupleElement(refs[j]), FALSE)
             ELSE op,
             ix, first, refs, j + 1)

RECURSIVE equateReferences(_, _, _, _, _)
equateReferences(op, ix, first, refs, j) ==
    IF j > Len(refs) THEN op
    ELSE equateReferences(
             IF first # refs[j] /\ ~isGenerator(ix, refs[j][1])
             THEN addEqualityCheck(op, makeRamTupleElement(first),
                                   makeRamTupleElement(refs[j]), FALSE)
             ELSE op,
             ix, first, refs, j + 1)

RECURSIVE addVariableBindingConstraintsFrom(_, _, _)
addVariableBindingConstraintsFrom(op, ix, v) ==
    IF v > Len(VarOrder) THEN op
    ELSE LET references == ix.varRefs[VarOrder[v]]
         IN addVariableBindingConstraintsFrom(
                IF references = {} THEN op
                ELSE equateReferences(op, ix, FirstLoc(references),
                                      SortedLocs(references), 1),
                ix, v + 1)

addVariableBindingConstraints(op, ix) == addVariableBindingConstraintsFrom(op, ix, 1)

addNegate_noPadding(op, T, ix, aux, atom, ptr, isDelta) ==
    LET auxiliaryArity == getEvaluationArity(aux, atom)
        arity == Len(atom.args) - auxiliaryArity
        name == IF isDelta THEN getDeltaRelationName(atom.name)
                ELSE getConcreteRelationName(atom.name)
    IN IF arity = 0 THEN Append(op, Filter(EmptinessCheck(name)))
       ELSE Append(op, Filter(Negation(ExistenceCheck(name,
                translateValues(T, ix, SubSeq(atom.args, 1, arity), ptr)))))

addNegate_newName(op, T, ix, aux, atom, ptr, isDelta) ==
    LET auxiliaryArity == getEvaluationArity(aux, atom)
        arity == Len(atom.args) - auxiliaryArity
        name == IF isDelta THEN getDeltaRelationName(atom.name)
                ELSE getNewRelationName(atom.name)
    IN IF arity = 0 THEN Append(op, Filter(EmptinessCheck(name)))
       ELSE Append(op, Filter(Negation(ExistenceCheck(name,
                translateValues(T, ix, SubSeq(atom.args, 1, arity), ptr)
                \o Undefs(auxiliaryArity)))))

addNegate(op, T, ix, aux, atom, ptr, isDelta) ==
    LET auxiliaryArity == getEvaluationArity(aux, atom)
        arity == Len(atom.args) - auxiliaryArity
        name == IF isDelta THEN getDeltaRelationName(atom.name)
                ELSE getConcreteRelationName(atom.name)
    IN IF arity = 0
       THEN \* for a nullary, negation is a simple emptiness check
            Append(op, Filter(EmptinessCheck(name)))
       ELSE Append(op, Filter(Negation(ExistenceCheck(name,
                translateValues(T, ix, SubSeq(atom.args, 1, arity), ptr)
                \o Undefs(auxiliaryArity)))))

RECURSIVE addLiteralFilters_noIntroductions(_, _, _, _, _, _)
addLiteralFilters_noIntroductions(op, T, ix, aux, c, p) ==
    IF p > Len(c.body) THEN op
    ELSE LET condition == IF c.body[p].k = "bc" /\ c.body[p].rhs[1].t \in {"agg", "functor"}
                          THEN <<>>
                          ELSE translateConstraint(T, ix, aux, c.body[p], p)
         IN addLiteralFilters_noIntroductions(
                IF condition # <<>> THEN Append(op, Filter(condition[1])) ELSE op,
                T, ix, aux, c, p + 1)

RECURSIVE addLiteralFilters(_, _, _, _, _, _)
addLiteralFilters(op, T, ix, aux, c, p) ==
    IF p > Len(c.body) THEN op
    ELSE LET condition == translateConstraint(T, ix, aux, c.body[p], p)
         IN addLiteralFilters(
                IF condition # <<>> THEN Append(op, Filter(condition[1])) ELSE op,
                T, ix, aux, c, p + 1)

RECURSIVE addPrevNegations(_, _, _, _, _, _, _)
addPrevNegations(op, T, ix, aux, c, ps, j) ==
    IF j > Len(ps) THEN op
    ELSE addPrevNegations(
             addNegate(op, T, ix, aux, c.body[ps[j]], AtomPtr(ps[j]), TRUE),
             T, ix, aux, c, ps, j + 1)

addBodyLiteralConstraints(op, T, ix, aux, c, delta, ps) ==
    LET a == addLiteralFilters(op, T, ix, aux, c, 1)
    IN IF isRecursive(delta)
       THEN LET b == IF Len(c.head.args) > 0
                     THEN addNegate(a, T, ix, aux, c.head, HeadPtr, FALSE)
                     ELSE a
            IN addPrevNegations(b, T, ix, aux, c, ps, 1)
       ELSE a

(* ---------------------------------------------------------------------- *)
(* Generator layers                                                       *)
(* ---------------------------------------------------------------------- *)
RECURSIVE otherReference_first(_, _, _, _)
otherReference_first(refs, curLevel, i, j) ==
    IF j > Len(refs) THEN <<>>
    ELSE IF TRUE THEN <<refs[j]>>
    ELSE otherReference_first(refs, curLevel, i, j + 1)

\* the first reference of the variable other than (curLevel, i), if any
RECURSIVE otherReference(_, _, _, _)
otherReference(refs, curLevel, i, j) ==
    IF j > Len(refs) THEN <<>>
    ELSE IF curLevel # refs[j][1] \/ i # refs[j][2] THEN <<refs[j]>>
    ELSE otherReference(refs, curLevel, i, j + 1)

addAggEqCondition(aggr, value, curLevel, pos) ==
    IF isUndefValue(value) THEN aggr
    ELSE Append(aggr, Constraint("EQ", TupleElement(curLevel, pos), value))

RECURSIVE aggAtomConditions(_, _, _, _, _, _, _)
aggAtomConditions(aggCond, T, ix, aggAtomArgs, aggAtomPtr, curLevel, i) ==
    IF i > Len(aggAtomArgs) THEN aggCond
    ELSE LET arg == aggAtomArgs[i]
             next ==
               IF arg.t = "var"
               THEN LET loc == otherReference(SortedLocs(ix.varRefs[arg.name]),
                                              curLevel, i - 1, 1)
                    IN IF loc # <<>>
                       THEN addAggEqCondition(aggCond, makeRamTupleElement(loc[1]),
                                              curLevel, i - 1)
                       ELSE aggCond
               ELSE addAggEqCondition(aggCond,
                        translateValue(T, ix, arg, Append(aggAtomPtr, i)),
                        curLevel, i - 1)
         IN aggAtomConditions(next, T, ix, aggAtomArgs, aggAtomPtr, curLevel, i + 1)

\* the conditions of the aggregator's body literals; the body atom
\* translates to no condition
RECURSIVE aggLiteralConditions(_, _, _, _, _)
aggLiteralConditions(T, ix, lits, ptr, j) ==
    IF j > Len(lits) THEN <<>>
    ELSE translateConstraint(T, ix, 0, lits[j], ptr[1])
         \o aggLiteralConditions(T, ix, lits, ptr, j + 1)

instantiateAggregator(op, T, ix, delta, agg, ptr, curLevel) ==
    LET litCond == aggLiteralConditions(T, ix, agg.lits, ptr, 1)
        aggCond == aggAtomConditions(litCond, T, ix, agg.args, AggAtomPtr(ptr), curLevel, 1)
        expr == IF agg.tgt # <<>>
                THEN translateValue(T, ix, agg.tgt[1], Append(ptr, 1))
                ELSE UndefValue
    IN Append(op, Aggregate(getClauseAtomName(delta, AggAtomPtr(ptr), agg.name),
                            expr, aggCond, curLevel))

func_op(inf) ==
    CASE inf.name = "range" -> "RANGE"
      [] inf.name = "urange" -> "URANGE"
      [] inf.name = "frange" -> "FRANGE"

instantiateMultiResultFunctor(op, T, ix, inf, ptr, curLevel) ==
    Append(op, NestedIntrinsicOperator(func_op(inf),
                                       translateValues(T, ix, inf.args, ptr), curLevel))

\* the argument a generator pointer <<p, 2>> designates
GeneratorAt(c, ptr) == c.body[ptr[1]].rhs[1]

RECURSIVE addGeneratorLevelsFrom(_, _, _, _, _, _, _)
addGeneratorLevelsFrom(op, T, ix, c, delta, j, curLevel) ==
    IF j < 1 THEN op
    ELSE LET ptr == ix.generators[j]
             generator == GeneratorAt(c, ptr)
         IN addGeneratorLevelsFrom(
                IF generator.t = "agg"
                THEN instantiateAggregator(op, T, ix, delta, generator, ptr, curLevel)
                ELSE instantiateMultiResultFunctor(op, T, ix, generator, ptr, curLevel),
                T, ix, c, delta, j - 1, curLevel - 1)

addGeneratorLevels_offByOne(op, T, ix, c, delta) ==
    addGeneratorLevelsFrom(op, T, ix, c, delta, Len(ix.generators),
                           Len(ix.operators) + Len(ix.generators))

addGeneratorLevels(op, T, ix, c, delta) ==
    addGeneratorLevelsFrom(op, T, ix, c, delta, Len(ix.generators),
                           Len(ix.operators) + Len(ix.generators) - 1)

(* ---------------------------------------------------------------------- *)
(* Operator layers                                                        *)
(* ---------------------------------------------------------------------- *)
RECURSIVE addConstantConstraintsFrom(_, _, _, _, _)
addConstantConstraintsFrom(op, T, curLevel, arguments, i) ==
    IF i > Len(arguments) THEN op
    ELSE LET argument == arguments[i]
             lhs == TupleElement(curLevel, i - 1)
         IN addConstantConstraintsFrom(
                IF argument.t = "num"
                THEN addEqualityCheck(op, lhs, translateConstant(T, argument),
                                      argument.ft = "Float")
                ELSE IF IsConstant(argument)
                THEN addEqualityCheck(op, lhs, translateConstant(T, argument), FALSE)
                ELSE op,
                T, curLevel, arguments, i + 1)

addConstantConstraints(op, T, curLevel, arguments) ==
    addConstantConstraintsFrom(op, T, curLevel, arguments, 1)

isAllArgsUnnamed(atom) == \A i \in 1..Len(atom.args) : atom.args[i].t = "unnamed"

\* the scan's profile text: its fields, empty unless profiling
frequencyAtom(profile, c, ptr, curLevel, version) ==
    IF profile THEN <<"@frequency-atom", c.head.name, version, ptr, curLevel>> ELSE <<>>

addAtomScan_scanAll(op, T, atom, ptr, c, delta, curLevel, version, profile) ==
    LET a == addConstantConstraints(op, T, curLevel, atom.args)
        b == Append(a, Filter(Negation(EmptinessCheck(
                          getClauseAtomName(delta, ptr, atom.name)))))
    IN IF Len(atom.args) # 0
       THEN LET d == IF Len(c.head.args) = 0
                     THEN Append(b, Break(Negation(EmptinessCheck(
                                     getClauseAtomName(delta, HeadPtr, c.head.name)))))
                     ELSE b
            IN Append(d, Scan(getClauseAtomName(delta, ptr, atom.name), curLevel,
                              frequencyAtom(profile, c, ptr, curLevel, version)))
       ELSE b

addAtomScan_breakOutside(op, T, atom, ptr, c, delta, curLevel, version, profile) ==
    LET a == addConstantConstraints(op, T, curLevel, atom.args)
        b == Append(a, Filter(Negation(EmptinessCheck(
                          getClauseAtomName(delta, ptr, atom.name)))))
    IN IF Len(atom.args) # 0 /\ ~isAllArgsUnnamed(atom)
       THEN LET d == Append(b, Scan(getClauseAtomName(delta, ptr, atom.name), curLevel,
                                    frequencyAtom(profile, c, ptr, curLevel, version)))
            IN IF Len(c.head.args) = 0
               THEN Append(d, Break(Negation(EmptinessCheck(
                               getClauseAtomName(delta, HeadPtr, c.head.name)))))
               ELSE d
       ELSE b

addAtomScan(op, T, atom, ptr, c, delta, curLevel, version, profile) ==
    LET a == addConstantConstraints(op, T, curLevel, atom.args)
        b == Append(a, Filter(Negation(EmptinessCheck(
                          getClauseAtomName(delta, ptr, atom.name)))))
    IN IF Len(atom.args) # 0 /\ ~isAllArgsUnnamed(atom)
       THEN LET d == IF Len(c.head.args) = 0
                     THEN Append(b, Break(Negation(EmptinessCheck(
                                     getClauseAtomName(delta, HeadPtr, c.head.name)))))
                     ELSE b
            IN Append(d, Scan(getClauseAtomName(delta, ptr, atom.name), curLevel,
                              frequencyAtom(profile, c, ptr, curLevel, version)))
       ELSE b

addRecordUnpack(op, T, ix, rec, ptr, curLevel) ==
    LET a == addConstantConstraints(op, T, curLevel, rec.args)
        loc == getRecordDefinitionPoint(ix, ptr)
    IN Append(a, UnpackRecord(curLevel, makeRamTupleElement(loc), Len(rec.args)))

\* the record argument a pointer <<p, i, ...>> designates
RECURSIVE ArgAt(_, _, _)
ArgAt(as, ptr, d) ==
    IF d = Len(ptr) THEN as[ptr[d]] ELSE ArgAt(as[ptr[d]].args, ptr, d + 1)

RECURSIVE addVariableIntroductionsFrom(_, _, _, _, _, _, _, _)
addVariableIntroductionsFrom(op, T, ix, c, delta, version, profile, i) ==
    IF i < 0 THEN op
    ELSE LET curOp == ix.operators[i + 1]
         IN addVariableIntroductionsFrom(
                IF Len(curOp) = 1
                THEN addAtomScan(op, T, c.body[curOp[1]], curOp, c, delta, i,
                                 version, profile)
                ELSE addRecordUnpack(op, T, ix, ArgAt(c.body[curOp[1]].args, curOp, 2),
                                     curOp, i),
                T, ix, c, delta, version, profile, i - 1)

addVariableIntroductions(op, T, ix, c, delta, version, profile) ==
    addVariableIntroductionsFrom(op, T, ix, c, delta, version, profile,
                                 Len(ix.operators) - 1)

createCondition_concrete(c, delta) ==
    IF Len(c.head.args) = 0
    THEN <<EmptinessCheck(getConcreteRelationName(c.head.name))>>
    ELSE <<>>

\* the stopping criterion for nullary heads, as zero or one conditions
createCondition(c, delta) ==
    IF Len(c.head.args) = 0
    THEN <<EmptinessCheck(getClauseAtomName(delta, HeadPtr, c.head.name))>>
    ELSE <<>>

addEntryPoint(op, c, delta) ==
    LET cond == createCondition(c, delta)
    IN IF cond # <<>> THEN Append(op, Filter(cond[1])) ELSE op

Query(op) == [kind |-> "Query", op |-> op]

createRamFactQuery_guarded(T, c, delta) ==
    Query(addEntryPoint(<<Project(getClauseAtomName(delta, HeadPtr, c.head.name),
                                  translateValues(T, EmptyIndex, c.head.args, HeadPtr))>>,
                        c, delta))

createRamFactQuery(T, c, delta) ==
    Query(<<Project(getClauseAtomName(delta, HeadPtr, c.head.name),
                    translateValues(T, EmptyIndex, c.head.args, HeadPtr))>>)

\* createRamRuleQuery run by a newly constructed translator
createRamRuleQuery(T, c, delta, ps, v, aux, prof) ==
    LET ix == indexClause(EmptyIndex, c)
        op1 == createProjection(T, ix, c, delta)
        op2 == addVariableBindingConstraints(op1, ix)
        op3 == addBodyLiteralConstraints(op2, T, ix, aux, c, delta, ps)
        op4 == addGeneratorLevels(op3, T, ix, c, delta)
        op5 == addVariableIntroductions(op4, T, ix, c, delta, v, prof)
    IN Query(addEntryPoint(op5, c, delta))

(* ---------------------------------------------------------------------- *)
(* The clauses, contexts and calls explored                               *)
(* ---------------------------------------------------------------------- *)
BodyAtomShapes ==
    { Atom("t", <<Var("x"), Var("y")>>),
      Atom("q", <<Var("x")>>),
      Atom("q", <<Unnamed>>),
      Atom("n", <<>>),
      Atom("r", <<Num("5", "Int"), Rec(<<Var("x"), Var("y")>>)>>) }

\* the non-atom literals placed before and after the body atoms
ExtraLiterals ==
    { <<<<>>, <<>>>>,
      <<<<Neg("t", <<Var("x"), Unnamed>>)>>, <<>>>>,
      <<<<>>, <<BinC("NE", Var("x"), Var("y"))>>>>,
      <<<<>>, <<BinC("EQ", Var("z"), Agg("q", <<Unnamed>>, <<>>))>>>>,
      <<<<>>, <<BinC("EQ", Var("z"), Agg("t", <<Var("x"), Var("y")>>, <<Var("y")>>))>>>>,
      <<<<>>, <<BinC("EQ", Var("z"), Agg("q", <<Unnamed>>, <<>>)),
               BinC("EQ", Var("z"), Agg("q", <<Var("x")>>, <<>>))>>>>,
      <<<<BinC("EQ", Var("z"), Functor("range", <<Num("1", "Int"), Var("x")>>))>>,
        <<BinC("EQ", Var("y"), Agg("q", <<Var("z")>>, <<>>))>>>>,
      <<<<>>, <<BinC("EQ", Var("z"),
                     AggBody("t", <<Var("x"), Num("5", "Int")>>, <<>>,
                             <<BinC("NE", Var("x"), Num("1", "Int"))>>))>>>> }

HeadShapes ==
    { Atom("p", <<Var("x")>>), Atom("t", <<Var("x"), Var("y")>>), Atom("n", <<>>),
      Atom("p", <<Var("z")>>) }

FactHeads ==
    { Atom("p", <<Num("1", "Int")>>), Atom("t", <<Num("1", "Int"), Str("a")>>),
      Atom("n", <<>>) }

Reverse(n) == [i \in 1..n |-> n + 1 - i]

\* no plan, or a plan with one order (the reversed body) for one version;
\* the plans are explored on the clauses whose body has atoms only
PlanChoices(n) == {NoPlan} \cup {Plan(v :> Reverse(n)) : v \in 0..MaxAtoms}

RECURSIVE VarsOfArgs(_)
VarsOfArgs(as) ==
    IF as = <<>> THEN {}
    ELSE (CASE Head(as).t = "var" -> {Head(as).name}
            [] Head(as).t = "agg" -> VarsOfArgs(Head(as).tgt)
            [] OTHER -> VarsOfArgs(Head(as).args))
         \cup VarsOfArgs(Tail(as))

UsedVars(c) ==
    VarsOfArgs(c.head.args)
    \cup UNION {VarsOfArgs(c.body[p].args \o c.body[p].lhs \o c.body[p].rhs) :
                  p \in {q \in 1..Len(c.body) : c.body[q].k # "atom"}}

\* the semantic checker admits a clause when its variables are grounded:
\* every variable used has a reference in the value index
Grounded(c) == \A v \in UsedVars(c) : indexClause(EmptyIndex, c).varRefs[v] # {}

RuleClauses ==
    { c \in { [head |-> h, body |-> e[1] \o b \o e[2], plan |-> pl] :
                h \in HeadShapes,
                b \in UNION {[1..n -> BodyAtomShapes] : n \in 1..MaxAtoms},
                e \in ExtraLiterals,
                pl \in UNION {PlanChoices(n) : n \in 1..MaxAtoms} } :
        /\ Grounded(c)
        /\ c.plan.present =>
             /\ Len(c.body) = Len(getBodyLiterals(c))
             /\ \A v \in DOMAIN c.plan.orders :
                   Len(c.plan.orders[v]) = Len(getBodyLiterals(c)) }

FactClauses == { [head |-> h, body |-> <<>>, plan |-> NoPlan] : h \in FactHeads }

SccChoices == { {"t"}, {"t", "q"}, {"p", "t", "q", "n", "r"} }

(* ---------------------------------------------------------------------- *)
(* State                                                                  *)
(* ---------------------------------------------------------------------- *)
VARIABLES
    clause,          \* the clause being lowered
    scc,             \* the relations of the stratum (generateClauseVersions)
    auxArity,        \* the context's number of auxiliary columns
    profile,         \* Global::config().has("profile")
    symbolTable,     \* the interned strings
    entry,           \* the entry point called
    pc,              \* the position of the call
    idx,             \* generateClauseVersions: the loop index i
    version,         \* the version counter / the version argument
    clauseVersions,  \* generateClauseVersions: the statements emitted so far
    result,          \* the statements returned to the caller
    deltaAtom,       \* ClauseTranslator::deltaAtom
    prevs,           \* ClauseTranslator::prevs
    atomOrder,       \* ClauseTranslator::atomOrder
    operators,       \* ClauseTranslator::operators
    generators,      \* ClauseTranslator::generators
    valueIndex,      \* ClauseTranslator::valueIndex
    returned,        \* the level each add*Level call returned
    op               \* the operation built so far, innermost layer first

vars == <<clause, scc, auxArity, profile, symbolTable, entry, pc, idx, version,
          clauseVersions, result, deltaAtom, prevs, atomOrder, operators,
          generators, valueIndex, returned, op>>

inputs == <<clause, scc, auxArity, profile, entry>>
driver == <<idx, clauseVersions, result>>
translator == <<deltaAtom, prevs, atomOrder, operators, generators, valueIndex, returned>>

EmptyValueIndex == [varRefs |-> [v \in VarNames |-> {}], recordDefs |-> {},
                    generatorLocs |-> {}]

\* the translator's index fields as one record
Ix == [operators |-> operators, generators |-> generators,
       opRet |-> returned.op, genRet |-> returned.gen,
       varRefs |-> valueIndex.varRefs, recordDefs |-> valueIndex.recordDefs,
       generatorLocs |-> valueIndex.generatorLocs, ret |-> 0]

SetIx(ix) ==
    /\ operators' = ix.operators
    /\ generators' = ix.generators
    /\ returned' = [op |-> ix.opRet, gen |-> ix.genRet]
    /\ valueIndex' = [varRefs |-> ix.varRefs, recordDefs |-> ix.recordDefs,
                      generatorLocs |-> ix.generatorLocs]

NewTranslator_reused(delta, ps) ==
    /\ deltaAtom' = delta
    /\ prevs' = ps
    /\ atomOrder' = <<>>
    /\ UNCHANGED <<operators, generators, returned, valueIndex>>
    /\ op' = <<>>

\* a newly constructed ClauseTranslator
NewTranslator(delta, ps) ==
    /\ deltaAtom' = delta
    /\ prevs' = ps
    /\ atomOrder' = <<>>
    /\ SetIx(EmptyIndex)
    /\ op' = <<>>

Init ==
    /\ clause \in RuleClauses \cup FactClauses
    /\ auxArity \in 0..MaxAux
    /\ profile \in BOOLEAN
    \* auxiliary columns are explored without plan, profiling with a plan
    /\ clause.plan.present => auxArity = 0
    /\ profile => clause.plan.present
    /\ scc = {}
    /\ symbolTable = <<>>
    /\ entry = "none"
    /\ pc = "idle"
    /\ idx = 0
    /\ version = 0
    /\ clauseVersions = <<>>
    /\ result = <<>>
    /\ deltaAtom = NullPtr
    /\ prevs = <<>>
    /\ atomOrder = <<>>
    /\ operators = <<>>
    /\ generators = <<>>
    /\ valueIndex = EmptyValueIndex
    /\ returned = [op |-> <<>>, gen |-> <<>>]
    /\ op = <<>>

(* ---------------------------------------------------------------------- *)
(* The strings each phase of the builder interns, in order                *)
(* ---------------------------------------------------------------------- *)
UserArgs(aux, atom) == SubSeq(atom.args, 1, Len(atom.args) - getEvaluationArity(aux, atom))

RECURSIVE LiteralStrings(_, _, _)
LiteralStrings(c, aux, p) ==
    IF p > Len(c.body) THEN <<>>
    ELSE (CASE c.body[p].k = "neg" -> StringsOf(UserArgs(aux, c.body[p]))
            [] c.body[p].k = "bc" -> StringsOf(c.body[p].lhs \o c.body[p].rhs)
            [] OTHER -> <<>>)
         \o LiteralStrings(c, aux, p + 1)

RECURSIVE PrevStrings(_, _, _, _)
PrevStrings(c, aux, ps, j) ==
    IF j > Len(ps) THEN <<>>
    ELSE StringsOf(UserArgs(aux, c.body[ps[j]])) \o PrevStrings(c, aux, ps, j + 1)

BodyStrings(c, aux, delta, ps) ==
    LiteralStrings(c, aux, 1)
    \o (IF isRecursive(delta)
        THEN StringsOf(UserArgs(aux, c.head)) \o PrevStrings(c, aux, ps, 1)
        ELSE <<>>)

RECURSIVE GeneratorStrings(_, _, _)
GeneratorStrings(c, gens, j) ==
    IF j < 1 THEN <<>>
    ELSE LET g == GeneratorAt(c, gens[j])
         IN StringsOf(g.args) \o StringsOf(g.tgt) \o GeneratorStrings(c, gens, j - 1)

RECURSIVE OperatorStrings(_, _, _)
OperatorStrings(c, ops, j) ==
    IF j < 1 THEN <<>>
    ELSE (IF Len(ops[j]) = 1 THEN DirectStrings(c.body[ops[j][1]].args)
          ELSE DirectStrings(ArgAt(c.body[ops[j][1]].args, ops[j], 2).args))
         \o OperatorStrings(c, ops, j - 1)

(* ---------------------------------------------------------------------- *)
(* Entry points and the version driver                                    *)
(* ---------------------------------------------------------------------- *)
atoms == getBodyLiterals(clause)

\* static generateClause: a fresh translator without delta atom
GenerateClause(v) ==
    /\ pc = "idle"
    /\ entry' = "generateClause"
    /\ version' = v
    /\ NewTranslator(NullPtr, <<>>)
    /\ pc' = "translateClause"
    /\ UNCHANGED <<clause, scc, auxArity, profile, symbolTable, driver>>

GenerateClauseVersions(s) ==
    /\ pc = "idle"
    /\ entry' = "generateClauseVersions"
    /\ scc' = s
    /\ version' = 0
    /\ idx' = 0
    /\ clauseVersions' = <<>>
    /\ pc' = "versions"
    /\ UNCHANGED <<clause, auxArity, profile, symbolTable, result, translator, op>>

SkipAtom_bumpsVersion ==
    /\ pc = "versions"
    /\ idx < Len(atoms)
    /\ clause.body[atoms[idx + 1]].name \notin scc
    /\ idx' = idx + 1
    /\ version' = version + 1
    /\ UNCHANGED <<inputs, symbolTable, pc, clauseVersions, result, translator, op>>

\* loop body: an atom outside the SCC is skipped
SkipAtom ==
    /\ pc = "versions"
    /\ idx < Len(atoms)
    /\ clause.body[atoms[idx + 1]].name \notin scc
    /\ idx' = idx + 1
    /\ UNCHANGED <<inputs, symbolTable, pc, version, clauseVersions, result,
                   translator, op>>

RECURSIVE prevsFrom_all(_, _, _, _)
prevsFrom_all(c, as, s, j) ==
    IF j > Len(as) THEN <<>> ELSE <<as[j]>> \o prevsFrom_all(c, as, s, j + 1)

RECURSIVE prevsFrom(_, _, _, _)
prevsFrom(c, as, s, j) ==
    IF j > Len(as) THEN <<>>
    ELSE (IF c.body[as[j]].name \in s THEN <<as[j]>> ELSE <<>>)
         \o prevsFrom(c, as, s, j + 1)

\* loop body for an atom of the SCC: a fresh translator runs
\* generateClauseVersion(scc, clause, i, version), which sets the delta
\* atom and the prevs list
GenerateClauseVersion ==
    /\ pc = "versions"
    /\ idx < Len(atoms)
    /\ clause.body[atoms[idx + 1]].name \in scc
    /\ NewTranslator(AtomPtr(atoms[idx + 1]), prevsFrom(clause, atoms, scc, idx + 2))
    /\ pc' = "translateClause"
    /\ UNCHANGED <<inputs, symbolTable, idx, version, clauseVersions, result>>

(* ---------------------------------------------------------------------- *)
(* translateClause                                                        *)
(* ---------------------------------------------------------------------- *)
CreateRamFactQuery ==
    /\ pc = "translateClause"
    /\ isFact(clause)
    /\ IF isRecursive(deltaAtom)
       THEN /\ pc' = "fatal"
            /\ UNCHANGED <<symbolTable, op>>
       ELSE LET T == InternAll(symbolTable, StringsOf(clause.head.args))
            IN /\ symbolTable' = T
               /\ op' = createRamFactQuery(T, clause, deltaAtom).op
               /\ pc' = "query"
    /\ UNCHANGED <<inputs, driver, version, translator>>

\* createRamRuleQuery, first step: set up the atom ordering
GetAtomOrdering ==
    /\ pc = "translateClause"
    /\ isRule(clause)
    /\ atomOrder' = getAtomOrdering(clause, version)
    /\ pc' = "indexAtoms"
    /\ UNCHANGED <<inputs, symbolTable, driver, version, deltaAtom, prevs,
                   operators, generators, valueIndex, returned, op>>

IndexAtoms ==
    /\ pc = "indexAtoms"
    /\ SetIx(indexAtoms(Ix, clause))
    /\ pc' = "indexAggregators"
    /\ UNCHANGED <<inputs, symbolTable, driver, version, deltaAtom, prevs, atomOrder, op>>

IndexAggregators ==
    /\ pc = "indexAggregators"
    /\ SetIx(indexAggregators(Ix, clause))
    /\ pc' = "indexMultiResultFunctors"
    /\ UNCHANGED <<inputs, symbolTable, driver, version, deltaAtom, prevs, atomOrder, op>>

IndexMultiResultFunctors ==
    /\ pc = "indexMultiResultFunctors"
    /\ SetIx(indexMultiResultFunctors(Ix, clause))
    /\ pc' = "createProjection"
    /\ UNCHANGED <<inputs, symbolTable, driver, version, deltaAtom, prevs, atomOrder, op>>

CreateProjection ==
    /\ pc = "createProjection"
    /\ LET T == InternAll(symbolTable, StringsOf(clause.head.args))
       IN /\ symbolTable' = T
          /\ op' = createProjection(T, Ix, clause, deltaAtom)
    /\ pc' = "addVariableBindingConstraints"
    /\ UNCHANGED <<inputs, driver, version, translator>>

AddVariableBindingConstraints ==
    /\ pc = "addVariableBindingConstraints"
    /\ op' = addVariableBindingConstraints(op, Ix)
    /\ pc' = "addBodyLiteralConstraints"
    /\ UNCHANGED <<inputs, symbolTable, driver, version, translator>>

AddBodyLiteralConstraints ==
    /\ pc = "addBodyLiteralConstraints"
    /\ LET T == InternAll(symbolTable, BodyStrings(clause, auxArity, deltaAtom, prevs))
       IN /\ symbolTable' = T
          /\ op' = addBodyLiteralConstraints(op, T, Ix, auxArity, clause, deltaAtom, prevs)
    /\ pc' = "addGeneratorLevels"
    /\ UNCHANGED <<inputs, driver, version, translator>>

AddGeneratorLevels ==
    /\ pc = "addGeneratorLevels"
    /\ LET T == InternAll(symbolTable, GeneratorStrings(clause, generators, Len(generators)))
       IN /\ symbolTable' = T
          /\ op' = addGeneratorLevels(op, T, Ix, clause, deltaAtom)
    /\ pc' = "addVariableIntroductions"
    /\ UNCHANGED <<inputs, driver, version, translator>>

AddVariableIntroductions ==
    /\ pc = "addVariableIntroductions"
    /\ LET T == InternAll(symbolTable, OperatorStrings(clause, operators, Len(operators)))
       IN /\ symbolTable' = T
          /\ op' = addVariableIntroductions(op, T, Ix, clause, deltaAtom, version, profile)
    /\ pc' = "addEntryPoint"
    /\ UNCHANGED <<inputs, driver, version, translator>>

\* the last step of createRamRuleQuery; op is then the operation of the Query
AddEntryPoint ==
    /\ pc = "addEntryPoint"
    /\ op' = addEntryPoint(op, clause, deltaAtom)
    /\ pc' = "query"
    /\ UNCHANGED <<inputs, symbolTable, driver, version, translator>>

(* ---------------------------------------------------------------------- *)
(* Returning the statement                                                *)
(* ---------------------------------------------------------------------- *)
\* generateClause returns the Query
ReturnClause ==
    /\ pc = "query"
    /\ entry = "generateClause"
    /\ result' = <<Query(op)>>
    /\ pc' = "done"
    /\ UNCHANGED <<inputs, symbolTable, idx, version, clauseVersions, translator, op>>

\* the rest of generateClauseVersion wraps the rule in LogRelationTimer
\* (when profiling), DebugInfo and Sequence; the loop appends it and
\* increments the version counter.  version and deltaAtomIdx record the
\* arguments of the generateClauseVersion call that built the statement.
Sequence(rule, prof, c, v, i) ==
    [kind |-> "Sequence",
     wrappers |-> IF prof THEN <<"DebugInfo", "LogRelationTimer">> ELSE <<"DebugInfo">>,
     timerRelation |-> IF prof THEN getNewRelationName(c.head.name) ELSE NoRel,
     rule |-> rule, version |-> v, deltaAtomIdx |-> i]

AppendVersion ==
    /\ pc = "query"
    /\ entry = "generateClauseVersions"
    /\ clauseVersions' = Append(clauseVersions, Sequence(Query(op), profile, clause, version, idx))
    /\ version' = version + 1
    /\ idx' = idx + 1
    /\ pc' = "versions"
    /\ UNCHANGED <<inputs, symbolTable, result, translator, op>>

maxVersion(c) ==
    IF DOMAIN c.plan.orders = {} THEN -1
    ELSE CHOOSE m \in DOMAIN c.plan.orders : \A w \in DOMAIN c.plan.orders : w <= m

CheckVersions_atLeast ==
    /\ pc = "versions"
    /\ idx = Len(atoms)
    /\ IF clause.plan.present /\ ~(version >= maxVersion(clause))
       THEN /\ pc' = "fatal"
            /\ result' = <<>>
       ELSE /\ pc' = "done"
            /\ result' = clauseVersions
    /\ UNCHANGED <<inputs, symbolTable, idx, version, clauseVersions, translator, op>>

\* after the loop: the check that the plan names no missing version
CheckVersions ==
    /\ pc = "versions"
    /\ idx = Len(atoms)
    /\ IF clause.plan.present /\ ~(version > maxVersion(clause))
       THEN /\ pc' = "fatal"
            /\ result' = <<>>
       ELSE /\ pc' = "done"
            /\ result' = clauseVersions
    /\ UNCHANGED <<inputs, symbolTable, idx, version, clauseVersions, translator, op>>

Next ==
    \/ \E v \in 0..1 : GenerateClause(v)
    \/ \E s \in SccChoices : GenerateClauseVersions(s)
    \/ SkipAtom
    \/ GenerateClauseVersion
    \/ CreateRamFactQuery
    \/ GetAtomOrdering
    \/ IndexAtoms
    \/ IndexAggregators
    \/ IndexMultiResultFunctors
    \/ CreateProjection
    \/ AddVariableBindingConstraints
    \/ AddBodyLiteralConstraints
    \/ AddGeneratorLevels
    \/ AddVariableIntroductions
    \/ AddEntryPoint
    \/ ReturnClause
    \/ AppendVersion
    \/ CheckVersions

Spec == Init /\ [][Next]_vars

(* ---------------------------------------------------------------------- *)
(* Vocabulary of the properties                                           *)
(* ---------------------------------------------------------------------- *)
IndexedStages == {"createProjection", "addVariableBindingConstraints",
                  "addBodyLiteralConstraints", "addGeneratorLevels",
                  "addVariableIntroductions", "addEntryPoint", "query"}

\* a rule whose operation tree is complete
RuleBuilt == pc = "query" /\ isRule(clause)
Recursive == deltaAtom # NullPtr

N == Len(operators) + Len(generators)

PosIn(seq, x) == CHOOSE i \in 1..Len(seq) : seq[i] = x

\* the level returned when the body atom at position p was registered
LevelOfAtom(p) == returned.op[PosIn(operators, <<p>>)]

RECURSIVE SelectLayers(_, _, _)
SelectLayers(o, P(_), i) ==
    IF i > Len(o) THEN <<>>
    ELSE (IF P(o[i]) THEN <<o[i]>> ELSE <<>>) \o SelectLayers(o, P, i + 1)

Rev(q) == [i \in 1..Len(q) |-> q[Len(q) + 1 - i]]

IsFilterOf(l, kind, negated) ==
    l.k = "Filter" /\ l.cond[1].c = kind /\ l.cond[1].neg = negated

\* a filter that subtracts a relation: not-exists, or is-empty
IsSubtraction(l) ==
    IsFilterOf(l, "ExistenceCheck", TRUE) \/ IsFilterOf(l, "EmptinessCheck", FALSE)
IsDeltaSubtraction(l) == IsSubtraction(l) /\ l.cond[1].rel.v = "delta"
IsNotEmptyFilter(l) == IsFilterOf(l, "EmptinessCheck", TRUE)
IsScan(l) == l.k = "Scan"
IsDeltaScan(l) == l.k = "Scan" /\ l.rel.v = "delta"

\* the zero-based indices (into the atom list) of the SCC-local atoms
\* among the first n atoms
RECURSIVE SccLocal(_, _)
SccLocal(n, i) ==
    IF i >= n THEN <<>>
    ELSE (IF clause.body[atoms[i + 1]].name \in scc THEN <<i>> ELSE <<>>)
         \o SccLocal(n, i + 1)

(* ---------------------------------------------------------------------- *)
(* C1: when the plan has an order for the version, the body atoms get     *)
(* their operator levels in the plan's order: the atom at plan position k *)
(* has a lower level than the atom at plan position k+1.                  *)
(* ---------------------------------------------------------------------- *)
C1_PlanOrderedLevels ==
    (RuleBuilt /\ atomOrder # <<>>) =>
        \A k \in 1..(Len(atomOrder) - 1) :
            LevelOfAtom(atomOrder[k]) < LevelOfAtom(atomOrder[k + 1])

(* ---------------------------------------------------------------------- *)
(* C2: generateClauseVersions emits one statement per SCC-local body      *)
(* atom; the k-th statement has version k and the k-th SCC-local atom, in *)
(* source order, as delta atom.                                           *)
(* ---------------------------------------------------------------------- *)
C2_OneVersionPerSccAtom ==
    (entry = "generateClauseVersions" /\ pc \in {"versions", "done"}) =>
        LET local == SccLocal(idx, 0)
        IN /\ Len(clauseVersions) = Len(local)
           /\ version = Len(local)
           /\ \A k \in 1..Len(local) :
                 /\ clauseVersions[k].version = k - 1
                 /\ clauseVersions[k].deltaAtomIdx = local[k]
           /\ pc = "done" => (idx = Len(atoms) /\ result = clauseVersions)

C2_Witness ==
    /\ pc = "done"
    /\ entry = "generateClauseVersions"
    /\ Len(atoms) = 2
    /\ Len(result) = 1
    /\ result[1].deltaAtomIdx = 1

(* ---------------------------------------------------------------------- *)
(* C3: in the version with delta atom at atom index i, prevs is the list  *)
(* of the later SCC-local atoms in source order, and the tree subtracts   *)
(* the delta relation of exactly these atoms, once each.                  *)
(* ---------------------------------------------------------------------- *)
C3_PrevsSubtractDelta ==
    (RuleBuilt /\ Recursive) =>
        LET later == SccLocal(Len(atoms), idx + 1)
            subs == SelectLayers(op, IsDeltaSubtraction, 1)
        IN /\ prevs = [j \in 1..Len(later) |-> atoms[later[j] + 1]]
           /\ Len(subs) = Len(prevs)
           /\ \A j \in 1..Len(prevs) :
                 subs[j].cond[1].rel = getDeltaRelationName(clause.body[prevs[j]].name)

C3_Witness ==
    /\ RuleBuilt /\ Recursive
    /\ Len(prevs) = 1
    /\ Len(SelectLayers(op, IsDeltaSubtraction, 1)) = 1

(* ---------------------------------------------------------------------- *)
(* C4 as claimed: in recursive mode a head of nonzero arity is subtracted *)
(* from the new relation of the head.                                     *)
(* ---------------------------------------------------------------------- *)
C4_HeadSubtractsNew ==
    (RuleBuilt /\ Recursive /\ Len(clause.head.args) > 0) =>
        \E i \in 1..Len(op) :
            /\ IsSubtraction(op[i])
            /\ op[i].cond[1].rel = getNewRelationName(clause.head.name)

(* ---------------------------------------------------------------------- *)
(* C4 amended: in recursive mode a head of nonzero arity is subtracted    *)
(* from the concrete relation of the head, with the values the Project    *)
(* writes; the Project writes into the new relation, which no filter      *)
(* names.                                                                 *)
(* ---------------------------------------------------------------------- *)
HeadSubtraction ==
    LET aux == Min(auxArity, Len(clause.head.args))
        user == Len(clause.head.args) - aux
        name == [v |-> "concrete", q |-> clause.head.name]
    IN IF user = 0 THEN Filter(EmptinessCheck(name))
       ELSE Filter(Negation(ExistenceCheck(name,
                SubSeq(op[1].vals, 1, user) \o [i \in 1..aux |-> UndefValue])))

C4_HeadSubtractsConcrete ==
    (RuleBuilt /\ Recursive /\ Len(clause.head.args) > 0) =>
        /\ op[1].k = "Project"
        /\ op[1].rel = [v |-> "new", q |-> clause.head.name]
        /\ \E i \in 1..Len(op) : op[i] = HeadSubtraction
        /\ \A i \in 1..Len(op) :
              op[i].k = "Filter" => op[i].cond[1].rel.v # "new"

C4_Witness ==
    /\ RuleBuilt /\ Recursive
    /\ Len(clause.head.args) = 2
    /\ auxArity = 1

(* ---------------------------------------------------------------------- *)
(* C5 as claimed (its consequence): every recursive version scans exactly *)
(* one body atom from a delta relation.                                   *)
(* ---------------------------------------------------------------------- *)
C5_OneDeltaScan ==
    (RuleBuilt /\ Recursive) => Len(SelectLayers(op, IsDeltaScan, 1)) = 1

(* ---------------------------------------------------------------------- *)
(* C5 amended: in non-recursive mode every relation named in the tree is  *)
(* concrete; in recursive mode the head resolves to new, the delta atom   *)
(* to delta and every other atom (aggregator atoms included) to concrete, *)
(* so exactly one body atom resolves to a delta relation; it is scanned   *)
(* from the delta relation when it has a Scan (nonzero arity, not all     *)
(* arguments unnamed), and no other Scan reads a delta relation.          *)
(* ---------------------------------------------------------------------- *)
IsAtomOperator(ptr) == Len(ptr) = 1
IsScanned(ptr) ==
    /\ Len(clause.body[ptr[1]].args) # 0
    /\ \E i \in 1..Len(clause.body[ptr[1]].args) : clause.body[ptr[1]].args[i].t # "unnamed"

ExpectedAtomName(ptr) ==
    [v |-> IF Recursive /\ ptr = deltaAtom THEN "delta" ELSE "concrete",
     q |-> clause.body[ptr[1]].name]

RECURSIVE SelectSeq2(_, _, _)
SelectSeq2(q, P(_), i) ==
    IF i > Len(q) THEN <<>>
    ELSE (IF P(q[i]) THEN <<q[i]>> ELSE <<>>) \o SelectSeq2(q, P, i + 1)

IsAggregate(l) == l.k = "Aggregate"

C5_NameResolution ==
    RuleBuilt =>
        LET atomOps == SelectSeq2(operators, IsAtomOperator, 1)
            scanned == SelectSeq2(atomOps, IsScanned, 1)
            filters == Rev(SelectLayers(op, IsNotEmptyFilter, 1))
            scans == Rev(SelectLayers(op, IsScan, 1))
            aggs == SelectLayers(op, IsAggregate, 1)
        IN /\ op[1].rel = [v |-> IF Recursive THEN "new" ELSE "concrete",
                           q |-> clause.head.name]
           /\ Len(filters) = Len(atomOps)
           /\ \A i \in 1..Len(atomOps) :
                 filters[i].cond[1].rel = ExpectedAtomName(atomOps[i])
           /\ Len(scans) = Len(scanned)
           /\ \A i \in 1..Len(scanned) : scans[i].rel = ExpectedAtomName(scanned[i])
           /\ \A i \in 1..Len(aggs) : aggs[i].rel.v = "concrete"
           /\ Recursive =>
                 /\ Cardinality({i \in 1..Len(filters) :
                                    filters[i].cond[1].rel.v = "delta"}) = 1
                 /\ Len(SelectLayers(op, IsDeltaScan, 1)) =
                       (IF IsScanned(deltaAtom) THEN 1 ELSE 0)
           /\ ~Recursive =>
                 \A i \in 1..Len(op) :
                    /\ op[i].rel.v \in {"", "concrete"}
                    /\ \A j \in 1..Len(op[i].cond) : op[i].cond[j].rel.v \in {"", "concrete"}

C5_Witness ==
    /\ RuleBuilt /\ Recursive
    /\ Len(atoms) = 2
    /\ clause.body[atoms[1]].name = clause.body[atoms[2]].name
    /\ IsScanned(deltaAtom)
    /\ deltaAtom = <<atoms[2]>>

(* ---------------------------------------------------------------------- *)
(* C6 as claimed: for a clause with a nullary head every emitted Query    *)
(* has an outer Filter(EmptinessCheck(head)) at the root and an inner one *)
(* directly around the Project, both naming the Project's relation.       *)
(* ---------------------------------------------------------------------- *)
NullaryGuards ==
    /\ Len(op) >= 3
    /\ op[1].k = "Project"
    /\ op[2] = Filter(EmptinessCheck(op[1].rel))
    /\ op[Len(op)] = Filter(EmptinessCheck(op[1].rel))

C6_NullaryGuardsEveryQuery ==
    (pc = "query" /\ Len(clause.head.args) = 0) => NullaryGuards

(* ---------------------------------------------------------------------- *)
(* C6 amended: for a rule with a nullary head every emitted Query has the *)
(* outer and the inner Filter(EmptinessCheck(head)); the Query of a       *)
(* nullary fact is the bare Project.                                      *)
(* ---------------------------------------------------------------------- *)
C6_NullaryGuardsEveryRule ==
    /\ (RuleBuilt /\ Len(clause.head.args) = 0) => NullaryGuards
    /\ (pc = "query" /\ isFact(clause)) => (Len(op) = 1 /\ op[1].k = "Project")

C6_Witness ==
    /\ RuleBuilt /\ Recursive
    /\ Len(clause.head.args) = 0
    /\ Len(op) > 3

(* ---------------------------------------------------------------------- *)
(* C7: the levels returned by addOperatorLevel and addGeneratorLevel are  *)
(* distinct and fill [0, operators.len + generators.len); the operator at *)
(* index i got level i and is emitted as Scan/UnpackRecord i, the         *)
(* generator at index j got level operators.len + j and is emitted as     *)
(* Aggregate/NestedIntrinsicOperator of that level.                       *)
(* ---------------------------------------------------------------------- *)
IsOperatorLayer(l) == l.k \in {"Scan", "UnpackRecord"}
IsGeneratorLayer(l) == l.k \in {"Aggregate", "NestedIntrinsicOperator"}
HasLayer(ptr) == IF IsAtomOperator(ptr) THEN IsScanned(ptr) ELSE TRUE

LayerKindOf(ptr) == IF IsAtomOperator(ptr) THEN "Scan" ELSE "UnpackRecord"
GeneratorKindOf(ptr) ==
    IF clause.body[ptr[1]].rhs[1].t = "agg" THEN "Aggregate" ELSE "NestedIntrinsicOperator"

C7_LevelsDenseAndEmitted ==
    /\ (pc \in IndexedStages /\ isRule(clause)) =>
          /\ Len(returned.op) = Len(operators)
          /\ Len(returned.gen) = Len(generators)
          /\ \A i \in 1..Len(operators) : returned.op[i] = i - 1
          /\ \A j \in 1..Len(generators) : returned.gen[j] = Len(operators) + j - 1
          /\ SeqToSet(returned.op) \cup SeqToSet(returned.gen) = 0..(N - 1)
          /\ SeqToSet(returned.op) \cap SeqToSet(returned.gen) = {}
    /\ RuleBuilt =>
          LET emittedOps == SelectSeq2([i \in 1..Len(operators) |-> i],
                                       LAMBDA i : HasLayer(operators[i]), 1)
              opLayers == Rev(SelectLayers(op, IsOperatorLayer, 1))
              genLayers == Rev(SelectLayers(op, IsGeneratorLayer, 1))
          IN /\ Len(opLayers) = Len(emittedOps)
             /\ \A i \in 1..Len(emittedOps) :
                   /\ opLayers[i].k = LayerKindOf(operators[emittedOps[i]])
                   /\ opLayers[i].level = returned.op[emittedOps[i]]
             /\ Len(genLayers) = Len(generators)
             /\ \A j \in 1..Len(generators) :
                   /\ genLayers[j].k = GeneratorKindOf(generators[j])
                   /\ genLayers[j].level = returned.gen[j]

C7_Witness ==
    /\ RuleBuilt
    /\ Len(operators) >= 3
    /\ Len(generators) = 2
    /\ \E i \in 1..Len(operators) : ~HasLayer(operators[i])

(* ---------------------------------------------------------------------- *)
(* C8: every TupleElement(level, column) of the emitted tree has          *)
(* 0 <= level < operators.len + generators.len.                           *)
(* ---------------------------------------------------------------------- *)
RECURSIVE LevelsOfExprs(_)
LevelsOfExprs(xs) ==
    IF xs = <<>> THEN {}
    ELSE (IF Head(xs).e = "TupleElement" THEN {Head(xs).a} ELSE {})
         \cup LevelsOfExprs(Head(xs).sub) \cup LevelsOfExprs(Tail(xs))

LevelsOfLayer(l) ==
    LevelsOfExprs(l.vals) \cup UNION {LevelsOfExprs(l.cond[j].vals) : j \in 1..Len(l.cond)}

TupleLevels(o) == UNION {LevelsOfLayer(o[i]) : i \in 1..Len(o)}

C8_TupleLevelsInRange ==
    (pc \in IndexedStages) => TupleLevels(op) \subseteq 0..(N - 1)

C8_Witness ==
    /\ RuleBuilt
    /\ Len(generators) >= 1
    /\ Len(operators) >= 2
    /\ TupleLevels(op) = 0..(N - 1)

(* ---------------------------------------------------------------------- *)
(* Occurrences of a variable and the equality filters linking them        *)
(* ---------------------------------------------------------------------- *)
Occurrences(v) == valueIndex.varRefs[v]
IsGeneratorCoordinate(loc) == loc[1] >= Len(operators)
GeneratorOccurrences(v) == {l \in Occurrences(v) : IsGeneratorCoordinate(l)}
OtherScanOccurrences(v) ==
    {l \in Occurrences(v) \ {FirstLoc(Occurrences(v))} : ~IsGeneratorCoordinate(l)}

IsEqualityFilter(l) == l.k = "Filter" /\ l.cond[1].c = "Constraint" /\ l.cond[1].o = "EQ"

\* the number of filters tuple[a] = tuple[b] in the tree
LinkCount(o, a, b) ==
    Cardinality({i \in 1..Len(o) :
                    /\ IsEqualityFilter(o[i])
                    /\ o[i].cond[1].vals = <<TupleElement(a[1], a[2]), TupleElement(b[1], b[2])>>})

RECURSIVE SumOver(_, _, _)
SumOver(S, f(_), acc) ==
    IF S = {} THEN acc
    ELSE LET x == CHOOSE y \in S : TRUE IN SumOver(S \ {x}, f, acc + f(x))

\* the number of filters linking the first occurrence of v to its other
\* occurrences that are not generator coordinates
ScanLinks(v) ==
    SumOver(OtherScanOccurrences(v), LAMBDA l : LinkCount(op, FirstLoc(Occurrences(v)), l), 0)

BoundVariables == {v \in VarNames : Occurrences(v) # {}}

(* ---------------------------------------------------------------------- *)
(* C9 as claimed: every variable either has all its k-1 other occurrences *)
(* linked to the first by equality filters (and no generator reference),  *)
(* or is bound through exactly one generator reference (and has no such   *)
(* equality filter); never both.                                          *)
(* ---------------------------------------------------------------------- *)
C9_EqualitiesXorGenerator ==
    RuleBuilt =>
        \A v \in BoundVariables :
            \/ /\ GeneratorOccurrences(v) = {}
               /\ ScanLinks(v) = Cardinality(Occurrences(v)) - 1
            \/ /\ Cardinality(GeneratorOccurrences(v)) = 1
               /\ ScanLinks(v) = 0

(* ---------------------------------------------------------------------- *)
(* C9 amended: for every variable the variable-binding pass emits exactly *)
(* one equality filter tuple[L1] = tuple[Lj] for each other occurrence Lj *)
(* that is not a generator coordinate, and none for an occurrence that is *)
(* a generator coordinate; these filters stay in the emitted tree, and a  *)
(* variable may have them together with any number of generator          *)
(* references.                                                            *)
(* ---------------------------------------------------------------------- *)
C9_ScanOccurrencesLinked ==
    /\ pc = "addBodyLiteralConstraints" =>
          /\ \A v \in BoundVariables :
                \A l \in Occurrences(v) \ {FirstLoc(Occurrences(v))} :
                    LinkCount(op, FirstLoc(Occurrences(v)), l) =
                        (IF IsGeneratorCoordinate(l) THEN 0 ELSE 1)
          /\ Len(SelectLayers(op, IsEqualityFilter, 1)) =
                SumOver(BoundVariables, LAMBDA v : Cardinality(OtherScanOccurrences(v)), 0)
    /\ RuleBuilt =>
          \A v \in BoundVariables :
              \A l \in OtherScanOccurrences(v) :
                  LinkCount(op, FirstLoc(Occurrences(v)), l) = 1

C9_Witness ==
    /\ RuleBuilt
    /\ \E v \in BoundVariables :
          /\ Cardinality(OtherScanOccurrences(v)) >= 1
          /\ Cardinality(GeneratorOccurrences(v)) >= 1
          /\ ScanLinks(v) >= 1

(* ---------------------------------------------------------------------- *)
(* C10: the recursive-mode subtraction of the head and of each prev atom  *)
(* is, when the atom's user arity is 0, a plain                           *)
(* Filter(EmptinessCheck(relation)), and otherwise a negated              *)
(* ExistenceCheck with total-arity many operands: the user arguments      *)
(* translated in order, then one undefined placeholder per auxiliary      *)
(* column.                                                                *)
(* ---------------------------------------------------------------------- *)
SubtractedAtoms ==
    (IF Len(clause.head.args) > 0 THEN <<clause.head>> ELSE <<>>)
    \o [j \in 1..Len(prevs) |-> clause.body[prevs[j]]]

TranslationOf(x, arg) ==
    CASE arg.t = "var" ->
           x = [e |-> "TupleElement", a |-> FirstLoc(Occurrences(arg.name))[1],
                b |-> FirstLoc(Occurrences(arg.name))[2], sub |-> <<>>]
      [] arg.t = "unnamed" -> x.e = "UndefValue"
      [] arg.t = "rec" -> x.e = "PackRecord" /\ Len(x.sub) = Len(arg.args)
      [] OTHER -> x.e \in {"SignedConstant", "UnsignedConstant", "FloatConstant"}

IsPaddedSubtraction(l, atom) ==
    LET total == Len(atom.args)
        auxiliary == IF auxArity < total THEN auxArity ELSE total
        user == total - auxiliary
        cd == l.cond[1]
    IN /\ l.k = "Filter"
       /\ Len(l.cond) = 1
       /\ IF user = 0
          THEN cd.c = "EmptinessCheck" /\ ~cd.neg /\ cd.vals = <<>> /\ cd.rel.q = atom.name
          ELSE /\ cd.c = "ExistenceCheck" /\ cd.neg /\ cd.rel.q = atom.name
               /\ Len(cd.vals) = total
               /\ \A i \in 1..user : TranslationOf(cd.vals[i], atom.args[i])
               /\ \A i \in (user + 1)..total : cd.vals[i].e = "UndefValue"

C10_NegationPadding ==
    (pc = "addGeneratorLevels" /\ Recursive) =>
        LET k == Len(SubtractedAtoms)
        IN /\ Len(op) > k
           /\ \A j \in 1..k : IsPaddedSubtraction(op[Len(op) - k + j], SubtractedAtoms[j])

C10_Witness ==
    /\ pc = "addGeneratorLevels" /\ Recursive
    /\ auxArity = 1
    /\ Len(clause.head.args) = 2
    /\ Len(prevs) = 1
    /\ Len(clause.body[prevs[1]].args) = 1
    /\ op[Len(op)].cond[1].c = "EmptinessCheck"
    /\ op[Len(op) - 1].cond[1].c = "ExistenceCheck"

(* ---------------------------------------------------------------------- *)
(* C11: when the clause carries a plan, generateClauseVersions returns    *)
(* normally only if the number of versions produced exceeds every version *)
(* index of the plan; if some plan index is at least the number of        *)
(* SCC-local body atoms the call ends in the "missing clause versions"    *)
(* failure and returns no statement.                                      *)
(* ---------------------------------------------------------------------- *)
VersionsEnded == entry = "generateClauseVersions" /\ pc \in {"done", "fatal"}

C11_MissingVersionsFatal ==
    (VersionsEnded /\ clause.plan.present) =>
        LET produced == Len(SccLocal(Len(atoms), 0))
            planned == DOMAIN clause.plan.orders
        IN /\ Len(clauseVersions) = produced
           /\ pc = "done" =>
                 /\ \A v \in planned : produced > v
                 /\ result = clauseVersions
           /\ (\E v \in planned : v >= produced) =>
                 /\ pc = "fatal"
                 /\ result = <<>>

C11_Witness ==
    /\ VersionsEnded /\ clause.plan.present
    /\ pc = "fatal"
    /\ Len(clauseVersions) = 1
    /\ 1 \in DOMAIN clause.plan.orders

(* ---------------------------------------------------------------------- *)
(* C12: a fact lowered in non-recursive mode is exactly                   *)
(* Query(Project(concrete head relation, values)) with one translated     *)
(* constant per head argument, in argument order, and no other node; no   *)
(* operator or generator level is registered and the value index stays    *)
(* empty.  A fact is never lowered with a delta atom set.                 *)
(* ---------------------------------------------------------------------- *)
IsFactValue(x, arg) ==
    CASE arg.t = "num" /\ arg.ft = "Int" -> x = SignedConstant(RamSignedFromString(arg.name))
      [] arg.t = "str" ->
           /\ x.e = "SignedConstant"
           /\ x.a \in 0..(Len(symbolTable) - 1)
           /\ symbolTable[x.a + 1] = arg.name
           /\ x.sub = <<>>
      [] OTHER -> FALSE

C12_FactIsBareProject ==
    /\ (pc \in {"query", "done"} /\ isFact(clause) /\ entry = "generateClause") =>
          /\ ~Recursive
          /\ Len(op) = 1
          /\ op[1].k = "Project"
          /\ op[1].rel = getConcreteRelationName(clause.head.name)
          /\ op[1].cond = <<>>
          /\ Len(op[1].vals) = Len(clause.head.args)
          /\ \A i \in 1..Len(clause.head.args) :
                IsFactValue(op[1].vals[i], clause.head.args[i])
          /\ operators = <<>> /\ generators = <<>>
          /\ returned.op = <<>> /\ returned.gen = <<>>
          /\ valueIndex = EmptyValueIndex
          /\ pc = "done" => result = <<Query(op)>>
    /\ isFact(clause) => (~Recursive /\ pc # "fatal")

C12_Witness ==
    /\ pc = "done" /\ isFact(clause)
    /\ Len(clause.head.args) = 2
    /\ symbolTable = <<"a">>
    /\ result[1].op[1].vals = <<SignedConstant(1), SignedConstant(0)>>

(* ---------------------------------------------------------------------- *)
(* C13: every lowering starts from an empty operator list, generator list *)
(* and value index, whatever was lowered before; the first body atom of   *)
(* every rule version gets level 0, and the tree of a clause and version  *)
(* is the one a newly constructed translator builds from the clause, the  *)
(* delta atom, the prevs, the version and the symbol table alone.         *)
(* ---------------------------------------------------------------------- *)
C13_FreshTranslatorPerLowering ==
    /\ pc = "translateClause" =>
          /\ operators = <<>> /\ generators = <<>>
          /\ returned = [op |-> <<>>, gen |-> <<>>]
          /\ valueIndex = EmptyValueIndex
          /\ op = <<>>
    /\ (pc \in IndexedStages /\ isRule(clause)) =>
          /\ operators[1] = AtomPtr(atoms[1])
          /\ returned.op[1] = 0
    /\ RuleBuilt =>
          Query(op) = createRamRuleQuery(symbolTable, clause, deltaAtom, prevs,
                                         version, auxArity, profile)

\* a later version of the loop, lowered after an earlier one left its levels
C13_Witness ==
    /\ RuleBuilt
    /\ entry = "generateClauseVersions"
    /\ Len(clauseVersions) >= 1
    /\ Len(operators) >= 2
    /\ Len(generators) >= 1

(* ---------------------------------------------------------------------- *)
(* Positions in the chain: op[1] is the Project, op[Len(op)] the root, so *)
(* layer i lies inside layer j exactly when i < j.                        *)
(* ---------------------------------------------------------------------- *)
RECURSIVE LayerPositions(_, _, _)
LayerPositions(o, P(_), i) ==
    IF i > Len(o) THEN <<>>
    ELSE (IF P(o[i]) THEN <<i>> ELSE <<>>) \o LayerPositions(o, P, i + 1)

\* the positions of the layers that introduce level L
IntroducersOf(o, L) ==
    {i \in 1..Len(o) : (IsOperatorLayer(o[i]) \/ IsGeneratorLayer(o[i])) /\ o[i].level = L}

\* the indices (into operators) of the body atoms, in registration order
AtomOperatorIndices ==
    SelectSeq2([i \in 1..Len(operators) |-> i], LAMBDA i : IsAtomOperator(operators[i]), 1)

ConstantColumns(atom) == {a \in 1..Len(atom.args) : IsConstant(atom.args[a])}

ConstantFilter(L, atom, a) ==
    Filter(Constraint(IF atom.args[a].t = "num" /\ atom.args[a].ft = "Float"
                      THEN "FEQ" ELSE "EQ",
                      TupleElement(L, a - 1), translateConstant(symbolTable, atom.args[a])))

(* ---------------------------------------------------------------------- *)
(* C14: every body atom registered at operator level L has one            *)
(* Filter(not EmptinessCheck(atom relation)) in the tree, and a           *)
(* Scan(atom relation, L) if and only if its arity is nonzero and not all *)
(* its arguments are unnamed; the level is the atom's in both cases; each *)
(* constant column has its filter tuple[L,i] = constant inside that Scan; *)
(* without the Scan no TupleElement reads level L.                        *)
(* ---------------------------------------------------------------------- *)
C14_AtomFiltersAndScans ==
    RuleBuilt =>
        LET ai == AtomOperatorIndices
            fpos == Rev(LayerPositions(op, IsNotEmptyFilter, 1))
        IN /\ Len(fpos) = Len(ai)
           /\ Len(ai) = Len(atoms)
           /\ \A k \in 1..Len(ai) :
                 LET ptr == operators[ai[k]]
                     atom == clause.body[ptr[1]]
                     L == returned.op[ai[k]]
                     scans == {i \in 1..Len(op) : op[i].k = "Scan" /\ op[i].level = L}
                 IN /\ ptr = AtomPtr(atoms[k])
                    /\ L = ai[k] - 1
                    /\ op[fpos[k]] = Filter(Negation(EmptinessCheck(ExpectedAtomName(ptr))))
                    /\ IntroducersOf(op, L) = scans
                    /\ IF IsScanned(ptr)
                       THEN /\ Cardinality(scans) = 1
                            /\ \A i \in scans :
                                  /\ op[i].rel = ExpectedAtomName(ptr)
                                  /\ fpos[k] < i
                                  /\ \A a \in ConstantColumns(atom) :
                                        Cardinality({j \in 1..(i - 1) :
                                            op[j] = ConstantFilter(L, atom, a)}) = 1
                                  /\ \A j \in (i + 1)..Len(op) :
                                        \A a \in ConstantColumns(atom) :
                                            op[j] # ConstantFilter(L, atom, a)
                       ELSE /\ scans = {}
                            /\ ConstantColumns(atom) = {}
                            /\ L \notin TupleLevels(op)

C14_Witness ==
    /\ RuleBuilt
    /\ Len(atoms) = 2
    /\ ~IsScanned(AtomPtr(atoms[1]))
    /\ Len(clause.body[atoms[1]].args) = 1
    /\ ConstantColumns(clause.body[atoms[2]]) # {}
    /\ \E i \in 1..Len(op) : op[i].k = "Scan" /\ op[i].level = 1

(* ---------------------------------------------------------------------- *)
(* C15 as claimed: with a nullary head every scanned body atom has a      *)
(* Break(not EmptinessCheck(head relation)) above its Scan, the Break     *)
(* enclosing the Scan; there is no Break otherwise.                       *)
(* ---------------------------------------------------------------------- *)
IsBreak(l) == l.k = "Break"
ScannedAtoms == SelectSeq2(SelectSeq2(operators, IsAtomOperator, 1), IsScanned, 1)
HeadBreak ==
    Break(Negation(EmptinessCheck([v |-> IF Recursive THEN "new" ELSE "concrete",
                                   q |-> clause.head.name])))

C15_BreakEnclosesScan ==
    RuleBuilt =>
        LET bpos == LayerPositions(op, IsBreak, 1)
            spos == LayerPositions(op, IsScan, 1)
        IN IF Len(clause.head.args) = 0
           THEN /\ Len(bpos) = Len(spos)
                /\ \A k \in 1..Len(spos) : bpos[k] > spos[k] /\ op[bpos[k]] = HeadBreak
           ELSE bpos = <<>>

(* ---------------------------------------------------------------------- *)
(* C15 amended: with a nullary head every scanned body atom has one       *)
(* Break(not EmptinessCheck(head relation)) directly inside its Scan (the *)
(* Scan encloses the Break, which encloses the atom's filters); there is  *)
(* no Break when the head has nonzero arity, and none for an atom without *)
(* Scan.                                                                  *)
(* ---------------------------------------------------------------------- *)
C15_BreakInsideScan ==
    RuleBuilt =>
        LET bpos == LayerPositions(op, IsBreak, 1)
            spos == LayerPositions(op, IsScan, 1)
        IN /\ Len(spos) = Len(ScannedAtoms)
           /\ IF Len(clause.head.args) = 0
              THEN /\ Len(bpos) = Len(spos)
                   /\ \A k \in 1..Len(spos) :
                         /\ bpos[k] = spos[k] - 1
                         /\ op[bpos[k]] = HeadBreak
                         /\ IsNotEmptyFilter(op[bpos[k] - 1])
              ELSE bpos = <<>>

C15_Witness ==
    /\ RuleBuilt /\ Recursive
    /\ Len(clause.head.args) = 0
    /\ Len(atoms) = 2
    /\ Len(ScannedAtoms) = 1
    /\ Len(LayerPositions(op, IsBreak, 1)) = 1

(* ---------------------------------------------------------------------- *)
(* The condition an aggregator at level L is expected to carry            *)
(* ---------------------------------------------------------------------- *)
RECURSIVE Flatten(_)
Flatten(qs) == IF qs = <<>> THEN <<>> ELSE Head(qs) \o Flatten(Tail(qs))

\* the value of an argument of a body literal of the aggregator
AggLiteralValue(arg) ==
    IF arg.t = "var"
    THEN TupleElement(FirstLoc(Occurrences(arg.name))[1], FirstLoc(Occurrences(arg.name))[2])
    ELSE translateConstant(symbolTable, arg)

AggLiteralTerms(agg) ==
    [j \in 1..Len(agg.lits) |->
        Constraint(agg.lits[j].name, AggLiteralValue(agg.lits[j].lhs[1]),
                                     AggLiteralValue(agg.lits[j].rhs[1]))]

\* the terms of argument column i (one-based) of the body atom
AggColumnTerms(agg, L, i) ==
    LET arg == agg.args[i]
        others == Occurrences(arg.name) \ {<<L, i - 1>>}
    IN CASE arg.t = "var" ->
              IF others = {} THEN <<>>
              ELSE <<Constraint("EQ", TupleElement(L, i - 1),
                                TupleElement(FirstLoc(others)[1], FirstLoc(others)[2]))>>
         [] arg.t = "unnamed" -> <<>>
         [] OTHER -> <<Constraint("EQ", TupleElement(L, i - 1),
                                  translateConstant(symbolTable, arg))>>

AggCondition(agg, L) ==
    AggLiteralTerms(agg) \o Flatten([i \in 1..Len(agg.args) |-> AggColumnTerms(agg, L, i)])

(* ---------------------------------------------------------------------- *)
(* C16: the condition of the aggregator emitted at level L is the         *)
(* conjunction of the translated conditions of its body literals and, per *)
(* argument column i of its body atom: for a variable with a reference    *)
(* other than (L, i), one equality tuple[L,i] = tuple[first such          *)
(* reference]; for a variable without other reference or an unnamed       *)
(* argument, nothing; otherwise one equality tuple[L,i] = translated      *)
(* value.  Without any term the condition is the true condition (the      *)
(* empty conjunction).                                                    *)
(* ---------------------------------------------------------------------- *)
C16_AggregatorCondition ==
    RuleBuilt =>
        \A j \in 1..Len(generators) :
            LET g == GeneratorAt(clause, generators[j])
                L == returned.gen[j]
                layers == {i \in 1..Len(op) : op[i].k = "Aggregate" /\ op[i].level = L}
            IN g.t = "agg" =>
                 /\ Cardinality(layers) = 1
                 /\ \A i \in layers : op[i].cond = AggCondition(g, L)

C16_Witness ==
    /\ RuleBuilt
    /\ \E i \in 1..Len(op) :
          /\ op[i].k = "Aggregate"
          /\ Len(op[i].cond) = 3
          /\ op[i].cond[1].o = "NE"
          /\ op[i].cond[2].vals[2].e = "TupleElement"
          /\ op[i].cond[2].vals[2].a < op[i].level
          /\ op[i].cond[3].vals[2].e = "SignedConstant"

(* ---------------------------------------------------------------------- *)
(* Variables bound by two or more generators and nothing else             *)
(* ---------------------------------------------------------------------- *)
\* the number of body literals  v = <generator>  whose generator sits at l
IntroductionsAt(v, l) ==
    Cardinality({p \in 1..Len(clause.body) :
                    /\ clause.body[p].k = "bc"
                    /\ clause.body[p].name = "EQ"
                    /\ clause.body[p].lhs[1] = Var(v)
                    /\ RhsPtr(p) \in SeqToSet(generators)
                    /\ getGeneratorLoc(Ix, RhsPtr(p)) = l})

DoublyGenerated ==
    {v \in BoundVariables :
        /\ \A l \in Occurrences(v) : IntroductionsAt(v, l) >= 1
        /\ Cardinality(Occurrences(v)) >= 2}

(* ---------------------------------------------------------------------- *)
(* C17 as claimed: when two generator coordinates bind one variable that  *)
(* has no other occurrence, no condition of the tree relates the two      *)
(* coordinates.                                                           *)
(* ---------------------------------------------------------------------- *)
C17_NoGeneratorLink ==
    RuleBuilt =>
        \A v \in DoublyGenerated :
            \A a, b \in Occurrences(v) : a # b => LinkCount(op, a, b) = 0

(* ---------------------------------------------------------------------- *)
(* C17 amended: for such a variable the variable-binding pass emits no    *)
(* equality between its generator coordinates, but the body-literal       *)
(* filter of each constraint  v = <generator at g>  is the equality       *)
(* tuple[first coordinate of v] = tuple[g]; the filter of the second      *)
(* constraint therefore links the two generator coordinates.              *)
(* ---------------------------------------------------------------------- *)
C17_LinkedByLiteralFilter ==
    /\ pc = "addBodyLiteralConstraints" =>
          \A v \in DoublyGenerated :
              \A a, b \in Occurrences(v) : LinkCount(op, a, b) = 0
    /\ RuleBuilt =>
          \A v \in DoublyGenerated :
              \A l \in Occurrences(v) :
                  LinkCount(op, FirstLoc(Occurrences(v)), l) = IntroductionsAt(v, l)

C17_Witness ==
    /\ RuleBuilt
    /\ \E v \in DoublyGenerated :
          \E l \in Occurrences(v) :
              /\ l # FirstLoc(Occurrences(v))
              /\ LinkCount(op, FirstLoc(Occurrences(v)), l) = 1

(* ---------------------------------------------------------------------- *)
(* Scopes: the layer at position i lies in the scope of level l when a    *)
(* layer that introduces l encloses it.                                   *)
(* ---------------------------------------------------------------------- *)
InScopeOf(i, l) == \E j \in IntroducersOf(op, l) : j > i

\* filters and the Project read only levels whose introducer encloses them
WellScopedFilters ==
    \A i \in 1..Len(op) :
        op[i].k \in {"Filter", "Project"} =>
            \A l \in LevelsOfLayer(op[i]) : InScopeOf(i, l)

\* an UnpackRecord source and the arguments of a NestedIntrinsicOperator
\* read only lower levels, inside their scope
WellScopedOperators ==
    \A i \in 1..Len(op) :
        op[i].k \in {"UnpackRecord", "NestedIntrinsicOperator"} =>
            \A l \in LevelsOfLayer(op[i]) : l < op[i].level /\ InScopeOf(i, l)

\* the condition and target of an Aggregate read its own level or lower
\* levels inside their scope
WellScopedAggregates ==
    \A i \in 1..Len(op) :
        op[i].k = "Aggregate" =>
            \A l \in LevelsOfLayer(op[i]) :
                l <= op[i].level /\ (l < op[i].level => InScopeOf(i, l))

(* ---------------------------------------------------------------------- *)
(* C18: in every emitted rule tree every TupleElement(l, c) is evaluated  *)
(* inside the scope of the node that introduces level l: filters and the  *)
(* Project lie inside the introducer of each level they read; an          *)
(* UnpackRecord source and NestedIntrinsicOperator arguments at level L   *)
(* read only levels below L; an Aggregate at level L reads only levels    *)
(* <= L, also when a variable of its body atom occurs in a generator of a *)
(* higher level.                                                          *)
(* ---------------------------------------------------------------------- *)
C18_WellScopedReads ==
    RuleBuilt => (WellScopedFilters /\ WellScopedOperators /\ WellScopedAggregates)

====
